---- MODULE Spec2Model ----
(***************************************************************************)
(* A state-machine model of MoopsyServer (src/src/models/server.ts): the   *)
(* connection registry, the two establishment paths (socket.io and HTTP),  *)
(* the HTTP message path with its suspension points, and the lifecycle     *)
(* notifications of MoopsyConnection.                                      *)
(*                                                                         *)
(* MoopsyConnection, generateId, parseRequestBody, safeJSONParse and       *)
(* isMoopsyError are imported by server.ts from files that are not part of *)
(* src/; they are modelled from the specification (spec.md) and marked so. *)
(***************************************************************************)
EXTENDS Integers, Sequences, FiniteSets, TLC

\* ------------------------------------------------------------------ bounds
MaxConns == 2       \* MoopsyConnection objects ever constructed
MaxReqs == 2        \* HTTP message requests ever submitted
MaxAuth == 1        \* authentication-updated notifications per connection
MaxCloseCalls == 2  \* disconnect invocations per connection

\* ------------------------------------------------------------- JS values
\* A header that is not sent reads as undefined; a header sent several times
\* can read as string[] (the source types both cases, lines 100 and 143).
Undefined == "<undefined>"
StringArray == "<string[]>"
Null == "<null>"

IsString(h) == h \notin {Undefined, StringArray, Null}
\* JavaScript truthiness of a header value: undefined and "" are falsy.
Truthy(h) == h \notin {Undefined, Null, ""}

\* Ids generateId can return for a new connection (two, so that ids collide).
GenIds == {"id1", "id2"}
\* Object.prototype property names: `this.connections` is a plain object
\* literal (line 40), so `k in o` and `o[k]` see them as well as own keys.
ProtoKeys == {"constructor"}
\* What a client can send as x-seamless-connection-id.
ConnIdHeaders == GenIds \cup ProtoKeys \cup {Undefined, StringArray}

PublicKeyHeaders == {"pk_abc", "", Undefined, StringArray}
HostHeaders == {"example.com", "", Undefined}
ForwardedForHeaders == {"10.0.0.1", "", Undefined, StringArray}
RemoteAddresses == {"192.168.0.1", Undefined}

VARIABLES
  conns,        \* every MoopsyConnection constructed so far, in construction order
  connections,  \* this.connections: id -> index into conns
  events,       \* per connection, the lifecycle notifications emitted on _emitter
  closeCalls,   \* per connection, how many times disconnect was invoked
  reqs,         \* HTTP message requests, in submission order
  handlerLog,   \* request indexes in the order handleIncomingHTTPRequest was called
  lastEst       \* the latest establishment attempt and what it produced

vars == <<conns, connections, events, closeCalls, reqs, handlerLog, lastEst>>

ConnIdx == 1..Len(conns)
ReqIdx == 1..Len(reqs)

\* --------------------------------------------------------- the registry
\* `delete this.connections[id]` (line 217): removes an own key, no-op otherwise.
DeleteKey(reg, id) == [k \in DOMAIN reg \ {id} |-> reg[k]]

\* `this.connections[id] = c` (line 214).
SetKey(reg, id, c) == [k \in DOMAIN reg \cup {id} |-> IF k = id THEN c ELSE reg[k]]

\* Line 210 without its test: every id passes for new.
IdInUse_never(id) == FALSE

\* `connection.id in this.connections` (line 210): own keys and inherited ones.
IdInUse(id) == id \in DOMAIN connections \/ id \in ProtoKeys

\* --------------------------------------------- MoopsyConnection (spec §3)
\* new MoopsyConnection(rawConnection, hostname, ip, server, publicKey): the id
\* is drawn by the identity generator; isOpen is true from construction.
\* hostname and ip are stored by the connection and never read by server.ts;
\* the model does not keep them.
NewMoopsyConnection(raw, publicKey, id) ==
  [id |-> id, raw |-> raw, publicKey |-> publicKey, isOpen |-> TRUE,
   closeHook |-> FALSE]

\* server.ts never emits on _emitter itself (lines 228-248 only subscribe), so
\* "connection opened" is emitted by the connection; handleNewConnection calls
\* nothing on it but the constructor and onDisconnect, hence at construction.
ConstructorEvents == <<"opened">>

\* A close hook that empties the registry instead of deleting its own key.
CloseHook_clear(reg, c) == [k \in {} |-> 0]

\* The server's close hook, `() => { delete this.connections[connection.id] }`
\* (lines 216-218).
CloseHook(reg, c) == DeleteKey(reg, conns[c].id)

\* Lines 205-221 without the test of lines 210-212: the assignment of line
\* 214 and the onDisconnect of lines 216-218 run for every id.
handleNewConnection_overwrite(raw, publicKey, id) ==
  LET c == Len(conns) + 1
      conn == NewMoopsyConnection(raw, publicKey, id)
  IN /\ events' = Append(events, ConstructorEvents)
     /\ closeCalls' = Append(closeCalls, 0)
     /\ conns' = Append(conns, [conn EXCEPT !.closeHook = TRUE])
     /\ connections' = SetKey(connections, id, c)

\* handleNewConnection (lines 205-221) for the id the constructor drew:
\* construct, throw on a key already present, else insert and register the
\* close hook. The connection object exists in both cases.
handleNewConnection(raw, publicKey, id) ==
  LET c == Len(conns) + 1
      conn == NewMoopsyConnection(raw, publicKey, id)
  IN /\ events' = Append(events, ConstructorEvents)
     /\ closeCalls' = Append(closeCalls, 0)
     /\ IF IdInUse(id)
        THEN /\ conns' = Append(conns, conn)
             /\ connections' = connections
        ELSE /\ conns' = Append(conns, [conn EXCEPT !.closeHook = TRUE])
             /\ connections' = SetKey(connections, id, c)

\* ------------------------------------------------ HTTP establish (99-131)
\* `req.headers["x-forwarded-for"]?.toString() ?? req.connection.remoteAddress`
\* (line 108): ?? falls back on undefined only, so "" stays "".
HeaderToString(h) == IF h = StringArray THEN "10.0.0.1,10.0.0.2" ELSE h
DetermineIP(xff, remote) == IF xff # Undefined THEN HeaderToString(xff) ELSE remote

NoRejection == "<none>"

\* Lines 102-119 without the hostname test of lines 111-114.
EstablishRejection_noHostCheck(publicKey, hostname, ip) ==
  IF ~Truthy(publicKey) \/ ~IsString(publicKey) THEN "Missing x-seamless-publickey"
  ELSE IF ~Truthy(ip) THEN "Unable to determine IP address"
  ELSE NoRejection

\* The three validations of lines 102-119, in the order of the code: the body
\* of the 400 response, or NoRejection.
EstablishRejection(publicKey, hostname, ip) ==
  IF ~Truthy(publicKey) \/ ~IsString(publicKey) THEN "Missing x-seamless-publickey"
  ELSE IF ~Truthy(hostname) THEN "Unable to determine hostname"
  ELSE IF ~Truthy(ip) THEN "Unable to determine IP address"
  ELSE NoRejection

\* JSON.stringify({connectionId: id}) (lines 127-129).
EstablishBody(id) == "{\"connectionId\":\"" \o id \o "\"}"

\* What an establishment request lacks, read off the request itself.
MissingFields(publicKey, host, xff, remote) ==
  {f \in {"publickey", "hostname", "ip"} :
     \/ f = "publickey" /\ publicKey \in {Undefined, StringArray}
     \/ f = "hostname" /\ host = Undefined
     \/ f = "ip" /\ xff = Undefined /\ remote = Undefined}

Attempt(kind, missing, outcome, status, body, conn, sock) ==
  [kind |-> kind, missing |-> missing, outcome |-> outcome, status |-> status,
   body |-> body, conn |-> conn, sock |-> sock]

\* handleHTTPEstablishRequest: no await before the response, so one step.  A
\* throw of handleNewConnection leaves the async function's promise rejected
\* and the response unwritten (there is no try/catch in lines 99-131).
handleHTTPEstablishRequest(publicKey, host, xff, remote, id) ==
  LET ip == DetermineIP(xff, remote)
      rejection == EstablishRejection(publicKey, host, ip)
      missing == MissingFields(publicKey, host, xff, remote)
  IN IF rejection # NoRejection
     THEN /\ lastEst' = Attempt("http", missing, "responded", 400, rejection, 0, <<>>)
          /\ UNCHANGED <<conns, connections, events, closeCalls>>
     ELSE /\ Len(conns) < MaxConns
          /\ handleNewConnection(Null, publicKey, id)
          /\ lastEst' = IF IdInUse(id)
                        THEN Attempt("http", missing, "threw", 0, "", Len(conns) + 1, <<>>)
                        ELSE Attempt("http", missing, "responded", 200,
                                     EstablishBody(id), Len(conns) + 1, <<>>)

HTTPEstablish ==
  \E publicKey \in PublicKeyHeaders, host \in HostHeaders,
     xff \in ForwardedForHeaders, remote \in RemoteAddresses, id \in GenIds :
    /\ handleHTTPEstablishRequest(publicKey, host, xff, remote, id)
    /\ UNCHANGED <<reqs, handlerLog>>

\* ------------------------------------------- socket establish (184-197)
\* Lines 184-197 without the test of lines 188-192: every socket is handed to
\* handleNewConnection.
handleNewSocketIOConnection_noHostCheck(host, id) ==
  /\ Len(conns) < MaxConns
  /\ handleNewConnection("socket", Null, id)
  /\ lastEst' = Attempt("socket", MissingFields(Null, host, Null, Null),
                        IF IdInUse(id) THEN "threw" ELSE "returned",
                        0, "", Len(conns) + 1, <<>>)

\* Lines 184-197 with a key in the place of the null of line 196.
handleNewSocketIOConnection_withKey(host, id) ==
  LET missing == MissingFields(Null, host, Null, Null)
  IN IF host = Undefined
     THEN /\ lastEst' = Attempt("socket", missing, "rejected", 0, "", 0,
                                <<"write:error:missing-hostname", "disconnect">>)
          /\ UNCHANGED <<conns, connections, events, closeCalls>>
     ELSE /\ Len(conns) < MaxConns
          /\ handleNewConnection("socket", "pk_abc", id)
          /\ lastEst' = Attempt("socket", missing,
                                IF IdInUse(id) THEN "threw" ELSE "returned",
                                0, "", Len(conns) + 1, <<>>)

\* handleNewSocketIOConnection: `hostname == null` is true of undefined only,
\* so an empty host header passes.  determineIPFromSocket always returns a
\* string, which nothing here reads.  A throw of handleNewConnection
\* propagates to socket.io's emitter.
handleNewSocketIOConnection(host, id) ==
  LET missing == MissingFields(Null, host, Null, Null)
  IN IF host = Undefined
     THEN /\ lastEst' = Attempt("socket", missing, "rejected", 0, "", 0,
                                <<"write:error:missing-hostname", "disconnect">>)
          /\ UNCHANGED <<conns, connections, events, closeCalls>>
     ELSE /\ Len(conns) < MaxConns
          /\ handleNewConnection("socket", Null, id)
          /\ lastEst' = Attempt("socket", missing,
                                IF IdInUse(id) THEN "threw" ELSE "returned",
                                0, "", Len(conns) + 1, <<>>)

SocketConnect ==
  \E host \in HostHeaders, id \in GenIds :
    /\ handleNewSocketIOConnection(host, id)
    /\ UNCHANGED <<reqs, handlerLog>>

\* ------------------------------------- MoopsyConnection lifecycle (spec)
\* A disconnect that closes again, and runs the hooks again, when the
\* connection is closed already.
Disconnect_notIdempotent(c) ==
  /\ closeCalls[c] < MaxCloseCalls
  /\ closeCalls' = [closeCalls EXCEPT ![c] = @ + 1]
  /\ conns' = [conns EXCEPT ![c].isOpen = FALSE]
  /\ connections' = IF conns[c].closeHook THEN DeleteKey(connections, conns[c].id)
                    ELSE connections
  /\ events' = [events EXCEPT ![c] = Append(@, "closed")]
  /\ UNCHANGED <<reqs, handlerLog, lastEst>>

\* disconnect, from the transport's close callback or from a collaborator:
\* idempotent; the first call marks the connection closed, runs the hooks
\* registered with onDisconnect and emits "connection closed".
Disconnect(c) ==
  /\ closeCalls[c] < MaxCloseCalls
  /\ closeCalls' = [closeCalls EXCEPT ![c] = @ + 1]
  /\ IF conns[c].isOpen
     THEN /\ conns' = [conns EXCEPT ![c].isOpen = FALSE]
          /\ connections' = IF conns[c].closeHook THEN CloseHook(connections, c)
                            ELSE connections
          /\ events' = [events EXCEPT ![c] = Append(@, "closed")]
     ELSE UNCHANGED <<conns, connections, events>>
  /\ UNCHANGED <<reqs, handlerLog, lastEst>>

AuthCount(c) == Cardinality({i \in 1..Len(events[c]) : events[c][i] = "auth"})

\* An authentication update that does not ask whether the connection is open.
AuthenticationUpdated_anytime(c) ==
  /\ AuthCount(c) < MaxAuth
  /\ events' = [events EXCEPT ![c] = Append(@, "auth")]
  /\ UNCHANGED <<conns, connections, closeCalls, reqs, handlerLog, lastEst>>

\* A collaborator writes authState and triggers "authentication updated"; the
\* notification is defined for an open connection only (spec §9 ordering).
AuthenticationUpdated(c) ==
  /\ conns[c].isOpen
  /\ AuthCount(c) < MaxAuth
  /\ events' = [events EXCEPT ![c] = Append(@, "auth")]
  /\ UNCHANGED <<conns, connections, closeCalls, reqs, handlerLog, lastEst>>

\* ------------------------------------------------- HTTP message (142-176)
\* The value `this.connections[connectionId]` (line 150) when it is not a
\* registered connection: undefined, or what Object.prototype holds.
NotFound == 0
Inherited == -1

\* `this.connections[connectionId]`: an own key gives its connection, a name
\* Object.prototype defines gives that inherited member, anything else
\* undefined.
Lookup(connectionId) ==
  IF connectionId \in DOMAIN connections THEN connections[connectionId]
  ELSE IF connectionId \in ProtoKeys THEN Inherited
  ELSE NotFound

\* What handleIncomingHTTPRequest (MoopsyConnection, spec §4.4 steps 3-5) can
\* do with a payload: return a value, fail with a protocol error carrying a
\* code and a message, or fail with any other error.  The code of a protocol
\* error is the handler's choice; 404 is one it may choose.
HandlerOutcomes ==
  { [kind |-> "value", code |-> 0, message |-> "pong"],
    [kind |-> "moopsy", code |-> 404, message |-> "Method not found"],
    [kind |-> "other", code |-> 0, message |-> "ECONNREFUSED db:5432"] }

NoOutcome == [kind |-> "none", code |-> 0, message |-> ""]

\* safeJSONParse on a body that does not decode (spec §4.4 step 2, §7): a
\* structured 4xx decode error, raised where the call stands, inside the try.
DecodeErrorCode == 400
DecodeError == [kind |-> "moopsy", code |-> DecodeErrorCode, message |-> "Invalid JSON"]

\* `connection.handleIncomingHTTPRequest` of an inherited member is undefined:
\* calling it is a TypeError.
NotAFunction == [kind |-> "other", code |-> 0, message |-> "TypeError: not a function"]

\* EJSON.stringify of a handler's value (line 164).
EJSONStringify(v) == "{\"value\":\"" \o v \o "\"}"

\* isMoopsyError (lib): the error is a protocol error carrying code and message.
isMoopsyError(e) == e.kind = "moopsy"

Response(status, body) == [status |-> status, body |-> body]

\* The catch of lines 168-175 without its isMoopsyError branch.
Respond_always500(o) ==
  IF o.kind = "value" THEN Response(200, EJSONStringify(o.message))
  ELSE Response(500, "Internal Server Error")

\* The catch of lines 168-175 writing the error's own message with the 500.
Respond_leaky(o) ==
  IF o.kind = "value" THEN Response(200, EJSONStringify(o.message))
  ELSE IF isMoopsyError(o) THEN Response(o.code, o.message)
  ELSE Response(500, o.message)

\* Lines 159-175: what the try/catch writes for an outcome of the awaited call.
Respond(o) ==
  IF o.kind = "value" THEN Response(200, EJSONStringify(o.message))
  ELSE IF isMoopsyError(o) THEN Response(o.code, o.message)
  ELSE Response(500, "Internal Server Error")

Request(hdr, known, conn, pc, decode, outcome, res) ==
  [hdr |-> hdr, known |-> known, conn |-> conn, pc |-> pc, decode |-> decode,
   outcome |-> outcome, status |-> res.status, body |-> res.body]

NoResponse == Response(0, "")

\* Lines 143-155 without the header test of lines 145-148: every header value
\* goes to the lookup.
handleHTTPMessageRequest_noHeaderCheck(hdr) ==
  LET known == hdr \in DOMAIN connections
      connection == Lookup(hdr)
  IN /\ Len(reqs) < MaxReqs
     /\ reqs' = Append(reqs,
          IF connection = NotFound
          THEN Request(hdr, known, NotFound, "done", "none", NoOutcome,
                       Response(404, "Connection not found"))
          ELSE Request(hdr, known, connection, "parse", "none", NoOutcome, NoResponse))
     /\ UNCHANGED <<conns, connections, events, closeCalls, handlerLog, lastEst>>

\* Lines 143-155, up to the first await: the header check and the lookup.
\* `known` records whether the header named a key of the registry on arrival.
handleHTTPMessageRequest(hdr) ==
  LET known == hdr \in DOMAIN connections
      connection == Lookup(hdr)
  IN /\ Len(reqs) < MaxReqs
     /\ reqs' = Append(reqs,
          IF ~Truthy(hdr) \/ ~IsString(hdr)
          THEN Request(hdr, known, NotFound, "done", "none", NoOutcome,
                       Response(400, "Missing connectionId"))
          ELSE IF connection = NotFound
          THEN Request(hdr, known, NotFound, "done", "none", NoOutcome,
                       Response(404, "Connection not found"))
          ELSE Request(hdr, known, connection, "parse", "none", NoOutcome, NoResponse))
     /\ UNCHANGED <<conns, connections, events, closeCalls, handlerLog, lastEst>>

\* `await parseRequestBody(req)` (line 157) rejects: the await stands outside
\* the try, so the handler's promise rejects and no response is written.
parseRequestBodyRejects(r) ==
  /\ reqs[r].pc = "parse"
  /\ reqs' = [reqs EXCEPT ![r].pc = "rejected"]
  /\ UNCHANGED <<conns, connections, events, closeCalls, handlerLog, lastEst>>

\* parseRequestBody resolves; line 160 evaluates safeJSONParse(rawData) and
\* calls the handler.  A body that does not decode and a callee that is no
\* function both throw inside the try and are answered at once; otherwise the
\* handler starts and the request waits for it.
parseRequestBodyResolves(r, decodes) ==
  /\ reqs[r].pc = "parse"
  /\ IF ~decodes
     THEN /\ reqs' = [reqs EXCEPT ![r] = Request(@.hdr, @.known, @.conn, "done", "fail",
                                                 NoOutcome, Respond(DecodeError))]
          /\ UNCHANGED handlerLog
     ELSE IF reqs[r].conn = Inherited
     THEN /\ reqs' = [reqs EXCEPT ![r] = Request(@.hdr, @.known, @.conn, "done", "ok",
                                                 NoOutcome, Respond(NotAFunction))]
          /\ UNCHANGED handlerLog
     ELSE /\ reqs' = [reqs EXCEPT ![r].pc = "handling", ![r].decode = "ok"]
          /\ handlerLog' = Append(handlerLog, r)
  /\ UNCHANGED <<conns, connections, events, closeCalls, lastEst>>

\* Lines 164-174 followed by a removal of the connection's entry once the
\* response is written.
handleIncomingHTTPRequestSettles_reap(r, o) ==
  /\ reqs[r].pc = "handling"
  /\ reqs' = [reqs EXCEPT ![r] = Request(@.hdr, @.known, @.conn, "done", @.decode,
                                         o, Respond(o))]
  /\ connections' = DeleteKey(connections, reqs[r].hdr)
  /\ UNCHANGED <<conns, events, closeCalls, handlerLog, lastEst>>

\* The awaited handleIncomingHTTPRequest settles and lines 164-174 answer.
handleIncomingHTTPRequestSettles(r, o) ==
  /\ reqs[r].pc = "handling"
  /\ reqs' = [reqs EXCEPT ![r] = Request(@.hdr, @.known, @.conn, "done", @.decode,
                                         o, Respond(o))]
  /\ UNCHANGED <<conns, connections, events, closeCalls, handlerLog, lastEst>>

Init ==
  /\ conns = <<>>
  /\ connections = [k \in {} |-> 0]
  /\ events = <<>>
  /\ closeCalls = <<>>
  /\ reqs = <<>>
  /\ handlerLog = <<>>
  /\ lastEst = Attempt("none", {}, "none", 0, "", 0, <<>>)

\* ---------------------------------------------------------- specifications
\* The three specifications are views of one server.  Each leaves out steps
\* that write none of the variables its claims read: a rejected establishment
\* writes lastEst only, a repeated disconnect closeCalls only, an
\* authentication update events only, and the message path reqs and
\* handlerLog only.
Close(c) == conns[c].isOpen /\ Disconnect(c)

\* Establishment over both transports with every header combination, and the
\* closing of connections: the registry.
Next ==
  \/ HTTPEstablish
  \/ SocketConnect
  \/ \E c \in ConnIdx : Close(c)

Spec == Init /\ [][Next]_vars

\* The establishments that pass validation.
HTTPEstablishValid ==
  \E id \in GenIds :
    /\ handleHTTPEstablishRequest("pk_abc", "example.com", "10.0.0.1", Undefined, id)
    /\ UNCHANGED <<reqs, handlerLog>>

SocketConnectValid ==
  \E id \in GenIds :
    /\ handleNewSocketIOConnection("example.com", id)
    /\ UNCHANGED <<reqs, handlerLog>>

\* The lifecycle of connections: establishment, authentication updates and
\* disconnects, repeated ones included.
NextLifecycle ==
  \/ HTTPEstablishValid
  \/ SocketConnectValid
  \/ \E c \in ConnIdx : Disconnect(c)
  \/ \E c \in ConnIdx : AuthenticationUpdated(c)

SpecLifecycle == Init /\ [][NextLifecycle]_vars

\* The HTTP message path, interleaved with HTTP establishments and closes;
\* the message path treats a socket connection's id as it treats any other.
NextMessages ==
  \/ HTTPEstablishValid
  \/ \E c \in ConnIdx : Close(c)
  \/ \E hdr \in ConnIdHeaders : handleHTTPMessageRequest(hdr)
  \/ \E r \in ReqIdx : parseRequestBodyRejects(r)
  \/ \E r \in ReqIdx, decodes \in BOOLEAN : parseRequestBodyResolves(r, decodes)
  \/ \E r \in ReqIdx, o \in HandlerOutcomes : handleIncomingHTTPRequestSettles(r, o)

SpecMessages == Init /\ [][NextMessages]_vars

\* ------------------------------------------------------------------ claims
\* c was returned by handleNewConnection and has not been closed.
Live(c) == conns[c].closeHook /\ conns[c].isOpen

\* c is the registry's value under its own id.
Registered(c) ==
  conns[c].id \in DOMAIN connections /\ connections[conns[c].id] = c

Count(seq, x) == Cardinality({i \in 1..Len(seq) : seq[i] = x})

\* C1: no two connections that were established and are not yet closed share
\* an id, every registry entry is keyed by its connection's id, and the id the
\* latest successful establishment returned is that of no other such connection.
C1_UniqueIds ==
  /\ \A c, d \in ConnIdx :
       Live(c) /\ Live(d) /\ conns[c].id = conns[d].id => c = d
  /\ \A k \in DOMAIN connections :
       connections[k] \in ConnIdx /\ conns[connections[k]].id = k
  /\ lastEst.outcome \in {"responded", "returned"} /\ lastEst.conn # 0
       => \A d \in ConnIdx \ {lastEst.conn} :
            Live(d) => conns[d].id # conns[lastEst.conn].id

\* An establishment drew the id of a connection that is still registered.
C1_Witness ==
  /\ lastEst.outcome = "threw"
  /\ \E c \in ConnIdx : Live(c) /\ Registered(c) /\ conns[c].id = conns[lastEst.conn].id

\* C2: an HTTP establish request that lacks the hostname, the ip or a string
\* public key is answered 400 and leaves the registry and the set of
\* connections as they were.
C2_MissingFieldIs400 ==
  [][(lastEst' # lastEst /\ lastEst'.kind = "http" /\ lastEst'.missing # {})
       => /\ lastEst'.outcome = "responded"
          /\ lastEst'.status = 400
          /\ connections' = connections
          /\ conns' = conns]_vars

\* A request with a public key and an ip but no hostname was answered 400
\* while a connection was registered.
C2_Witness ==
  /\ lastEst.kind = "http"
  /\ lastEst.missing = {"hostname"}
  /\ lastEst.status = 400
  /\ DOMAIN connections # {}

SentString(h) == Truthy(h) /\ IsString(h)

\* C3: a message request whose connection-id header is a string that is not a
\* key of the registry is answered 404 and reaches no inbound handler.
C3_UnknownIdIs404 ==
  \A r \in ReqIdx :
    SentString(reqs[r].hdr) /\ ~reqs[r].known
      => /\ reqs[r].pc = "done"
         /\ reqs[r].status = 404
         /\ \A i \in 1..Len(handlerLog) : handlerLog[i] # r

\* C3, for the ids Object.prototype does not define: those are answered 404.
C3_UnknownOwnNameIs404 ==
  \A r \in ReqIdx :
    SentString(reqs[r].hdr) /\ ~reqs[r].known /\ reqs[r].hdr \notin ProtoKeys
      => /\ reqs[r].pc = "done"
         /\ reqs[r].status = 404
         /\ \A i \in 1..Len(handlerLog) : handlerLog[i] # r

C5_InOrderNeverConcurrent ==
  /\ \A i, j \in 1..Len(handlerLog) :
       (i < j /\ reqs[handlerLog[i]].conn = reqs[handlerLog[j]].conn)
         => handlerLog[i] < handlerLog[j]
  /\ \A r, q \in ReqIdx :
       (reqs[r].pc = "handling" /\ reqs[q].pc = "handling"
          /\ reqs[r].conn = reqs[q].conn) => r = q

C7_SocketRegisteredIffOpen ==
  \A c \in ConnIdx :
    conns[c].raw = "socket" => (Registered(c) <=> conns[c].isOpen)

\* C7, for the connections handleNewConnection returned.
C7_EstablishedSocketRegisteredIffOpen ==
  \A c \in ConnIdx :
    (conns[c].raw = "socket" /\ conns[c].closeHook)
      => (Registered(c) <=> conns[c].isOpen)

\* C8: a request on a registered id whose body does not decode is answered
\* with the 4xx decode error, never 500, in the step that reads the body, and
\* that step changes neither the registry nor any connection.
C8_DecodeErrorNot500 ==
  [][\A r \in ReqIdx :
       (reqs[r].known /\ reqs[r].decode # "fail" /\ reqs'[r].decode = "fail")
         => /\ reqs'[r].pc = "done"
            /\ reqs'[r].status = DecodeErrorCode
            /\ reqs'[r].status # 500
            /\ reqs'[r].body = DecodeError.message
            /\ connections' = connections
            /\ conns' = conns]_vars

\* A body failed to decode on a connection that is still registered and open.
C8_Witness ==
  \E r \in ReqIdx :
    /\ reqs[r].known /\ reqs[r].decode = "fail" /\ reqs[r].pc = "done"
    /\ reqs[r].conn \in ConnIdx
    /\ Live(reqs[r].conn) /\ Registered(reqs[r].conn)

\* C9: a value the handler returns is answered 200 with its serialization, a
\* protocol error with its own code and message, any other error with 500
\* and the fixed body, which is not the error's message.
C9_ResponseMapping ==
  \A r \in ReqIdx :
    LET o == reqs[r].outcome IN
    o.kind # "none"
      => /\ reqs[r].pc = "done"
         /\ o.kind = "value"
              => reqs[r].status = 200 /\ reqs[r].body = EJSONStringify(o.message)
         /\ o.kind = "moopsy"
              => reqs[r].status = o.code /\ reqs[r].body = o.message
         /\ o.kind = "other"
              => /\ reqs[r].status = 500
                 /\ reqs[r].body = "Internal Server Error"
                 /\ reqs[r].body # o.message

\* The handler has failed with a protocol error for one request and with
\* another error for a second one.
C9_Witness ==
  \A k \in {"moopsy", "other"} :
    \E r \in ReqIdx : reqs[r].pc = "done" /\ reqs[r].outcome.kind = k

\* C10: no HTTP request handler ends without having written a response.
C10_EveryRequestAnswered ==
  /\ lastEst.kind = "http" => lastEst.outcome = "responded"
  /\ \A r \in ReqIdx : reqs[r].pc # "rejected"

\* C11: an establishment whose generated id is a key of the registry throws
\* and leaves the registry as it was: the entry under that id keeps its
\* connection, the new connection is not registered and has no close hook,
\* and closing a connection that has no close hook removes no entry.
C11_CollisionKeepsRegistry ==
  /\ [][(Len(conns') = Len(conns) + 1
           /\ conns'[Len(conns')].id \in DOMAIN connections)
          => /\ lastEst'.outcome = "threw"
             /\ lastEst'.conn = Len(conns')
             /\ connections' = connections
             /\ ~conns'[Len(conns')].closeHook
             /\ \A k \in DOMAIN connections' : connections'[k] # Len(conns')]_vars
  /\ [][\A c \in ConnIdx :
          (conns[c].isOpen /\ ~conns'[c].isOpen /\ ~conns[c].closeHook)
            => connections' = connections]_vars

\* An establishment drew the id of a registered connection and threw; the
\* connection it had constructed was closed afterwards, and the original is
\* still registered under the id.
C11_Witness ==
  \E c, d \in ConnIdx :
    /\ c # d /\ conns[c].id = conns[d].id
    /\ Live(c) /\ Registered(c)
    /\ ~conns[d].closeHook /\ ~conns[d].isOpen
    /\ lastEst.outcome = "threw" /\ lastEst.conn = d

\* c was returned by handleNewConnection and its close hook has run.
Closed(c) == conns[c].closeHook /\ ~conns[c].isOpen

\* C12: closed is terminal: a connection whose close hook has run is not
\* registered, never becomes open again, and every message request that
\* arrives afterwards naming its id is answered 404.
C12_ClosedIsTerminal ==
  /\ [](\A c \in ConnIdx : Closed(c) => ~Registered(c))
  /\ [][\A c \in ConnIdx : Closed(c) => Closed(c)']_vars
  /\ [][\A c \in ConnIdx :
          (Closed(c) /\ Len(reqs') = Len(reqs) + 1
             /\ reqs'[Len(reqs')].hdr = conns[c].id)
            => /\ reqs'[Len(reqs')].pc = "done"
               /\ reqs'[Len(reqs')].status = 404]_vars

\* C12, without the requests: a closed connection is never registered and
\* never open again.
C12_ClosedStaysClosed ==
  /\ [](\A c \in ConnIdx : Closed(c) => ~Registered(c))
  /\ [][\A c \in ConnIdx : Closed(c) => Closed(c)']_vars

\* C12, for ids no later establishment has drawn again: the requests that
\* name the id of a closed connection are answered 404.
C12_ClosedIdIs404UnlessReused ==
  [][\A c \in ConnIdx :
       (Closed(c) /\ Len(reqs') = Len(reqs) + 1
          /\ reqs'[Len(reqs')].hdr = conns[c].id
          /\ \A d \in ConnIdx : (d > c /\ conns[d].id = conns[c].id) => ~Live(d))
         => /\ reqs'[Len(reqs')].pc = "done"
            /\ reqs'[Len(reqs')].status = 404]_vars

\* C13: no step of the handling of a message request, whatever it answers,
\* adds or removes a registry entry or changes a connection; an entry leaves
\* the registry only in the step that closes its connection.
C13_MessagesKeepRegistry ==
  /\ [][reqs' # reqs => (connections' = connections /\ conns' = conns)]_vars
  /\ [][\A k \in DOMAIN connections :
          k \notin DOMAIN connections'
            => /\ conns[connections[k]].isOpen
               /\ ~conns'[connections[k]].isOpen
               /\ reqs' = reqs]_vars

\* One connection has answered two requests, one with 200 and one with 500,
\* and is still registered.
C13_Witness ==
  \E c \in ConnIdx, r, q \in ReqIdx :
    /\ reqs[r].conn = c /\ reqs[q].conn = c
    /\ reqs[r].pc = "done" /\ reqs[r].status = 200
    /\ reqs[q].pc = "done" /\ reqs[q].status = 500
    /\ Live(c) /\ Registered(c)

\* The step is an HTTP establish request with hostname, ip and string public
\* key present; it constructed the connection Len(conns').
ValidHTTPEstablishStep ==
  /\ Len(conns') = Len(conns) + 1
  /\ lastEst'.kind = "http" /\ lastEst'.missing = {} /\ lastEst'.conn = Len(conns')

\* The step answers 200 with the new connection's id and adds to the registry
\* the one entry that maps this id to the new connection.
EstablishedAndRegistered ==
  LET c == Len(conns')
      id == conns'[c].id
  IN /\ lastEst'.outcome = "responded"
     /\ lastEst'.status = 200
     /\ lastEst'.body = EstablishBody(id)
     /\ id \notin DOMAIN connections
     /\ DOMAIN connections' = DOMAIN connections \cup {id}
     /\ connections'[id] = c
     /\ \A k \in DOMAIN connections : connections'[k] = connections[k]

\* C14: every HTTP establish request with hostname, ip and string public key
\* present is answered 200 with a connection id and adds to the registry the
\* one entry that maps this id to the new connection; a message request that
\* names the id before the connection is closed resolves to it and is not
\* answered 404.
C14_EstablishThenResolvable ==
  /\ [][ValidHTTPEstablishStep => EstablishedAndRegistered]_vars
  /\ [][\A c \in ConnIdx :
          (Live(c) /\ Len(reqs') = Len(reqs) + 1
             /\ reqs'[Len(reqs')].hdr = conns[c].id)
            => reqs'[Len(reqs')].conn = c]_vars
  /\ [](\A r \in ReqIdx : reqs[r].conn \in ConnIdx => reqs[r].status # 404)

\* C14, for the requests whose generated id is no key of the registry: 200
\* with the id and exactly the one new entry.
C14_FreshIdEstablishes ==
  [][(ValidHTTPEstablishStep /\ ~IdInUse(conns'[Len(conns')].id))
       => EstablishedAndRegistered]_vars

\* C14, for the lookup: a message request naming the id of an established
\* connection that is not closed resolves to that connection and is never
\* answered with the lookup's 404.
C14_LiveIdPassesLookup ==
  /\ [][\A c \in ConnIdx :
          (Live(c) /\ Len(reqs') = Len(reqs) + 1
             /\ reqs'[Len(reqs')].hdr = conns[c].id)
            => /\ reqs'[Len(reqs')].conn = c
               /\ reqs'[Len(reqs')].pc = "parse"]_vars
  /\ [](\A r \in ReqIdx :
          reqs[r].conn \in ConnIdx => reqs[r].body # "Connection not found")

\* C14, without the codes the handler chooses: only a handler's own protocol
\* error answers 404 to a request that resolved to a connection.
C14_Only404IsTheHandlers ==
  \A r \in ReqIdx :
    (reqs[r].conn \in ConnIdx /\ reqs[r].status = 404)
      => reqs[r].outcome.kind = "moopsy" /\ reqs[r].outcome.code = 404

\* The step is the arrival of a socket whose handshake lacks a hostname.
SocketWithoutHostnameStep ==
  /\ lastEst'.kind = "socket" /\ "hostname" \in lastEst'.missing
  /\ lastEst' # lastEst \/ Len(conns') > Len(conns)

\* The error is written to the socket, then the socket is disconnected; no
\* connection is constructed and the registry stays as it was.
RejectedBeforeConstruction ==
  /\ lastEst'.outcome = "rejected"
  /\ lastEst'.sock = <<"write:error:missing-hostname", "disconnect">>
  /\ lastEst'.conn = 0
  /\ UNCHANGED <<conns, connections, events, closeCalls>>

\* C15: a socket whose handshake has no hostname is rejected before a
\* connection is constructed: the error is written, then the socket is
\* disconnected, handleNewConnection is not called, the registry is unchanged.
C15_SocketWithoutHostnameRejected ==
  [][SocketWithoutHostnameStep => RejectedBeforeConstruction]_vars

\* C15, the other way round: what handleNewSocketIOConnection rejects lacks a
\* hostname.
C15_RejectedLacksHostname ==
  lastEst.outcome = "rejected" => "hostname" \in lastEst.missing

\* A socket without a host header was rejected while a connection was
\* registered.
C15_Witness ==
  /\ lastEst.kind = "socket"
  /\ lastEst.outcome = "rejected"
  /\ lastEst.sock = <<"write:error:missing-hostname", "disconnect">>
  /\ \E c \in ConnIdx : Live(c) /\ Registered(c)

\* C16: under every interleaving of establishments and closes the registry
\* holds exactly the connections that handleNewConnection returned and whose
\* close hook has not run, each under its own id; the close hook of c removes
\* the entry under c's id and no other; and the hook's removal, issued for an
\* id that is no key of the registry, leaves the registry as it is.
C16_RegistryIsLiveSet ==
  /\ [](/\ {connections[k] : k \in DOMAIN connections} = {c \in ConnIdx : Live(c)}
        /\ \A c \in ConnIdx : Live(c) => Registered(c)
        /\ \A c \in ConnIdx :
             conns[c].id \notin DOMAIN connections
               => CloseHook(connections, c) = connections)
  /\ [][\A c \in ConnIdx :
          (Live(c) /\ ~conns'[c].isOpen)
            => /\ DOMAIN connections' = DOMAIN connections \ {conns[c].id}
               /\ \A k \in DOMAIN connections' : connections'[k] = connections[k]]_vars

\* Of two connections established under different ids one was closed, and
\* disconnected once more, while the other is still registered.
C16_Witness ==
  \E c, d \in ConnIdx :
    /\ conns[c].id # conns[d].id
    /\ Closed(c) /\ closeCalls[c] = 2
    /\ Live(d) /\ Registered(d)

\* C17: a message request whose connection-id header is absent or is not a
\* single string is answered 400, not 404, in the step that receives it; it
\* resolves to no connection, reaches no inbound handler and leaves the
\* registry as it was.
C17_BadHeaderIs400 ==
  /\ [][(Len(reqs') = Len(reqs) + 1 /\ ~IsString(reqs'[Len(reqs')].hdr))
          => /\ reqs'[Len(reqs')].pc = "done"
             /\ reqs'[Len(reqs')].status = 400
             /\ reqs'[Len(reqs')].status # 404
             /\ reqs'[Len(reqs')].body = "Missing connectionId"
             /\ reqs'[Len(reqs')].conn = NotFound
             /\ connections' = connections
             /\ handlerLog' = handlerLog]_vars
  /\ [](\A r \in ReqIdx :
          ~IsString(reqs[r].hdr)
            => /\ reqs[r].status = 400
               /\ \A i \in 1..Len(handlerLog) : handlerLog[i] # r)

\* A request without the header and a request with a repeated header were
\* both answered 400 while a connection was registered.
C17_Witness ==
  /\ \E r \in ReqIdx : reqs[r].hdr = Undefined /\ reqs[r].status = 400
  /\ \E r \in ReqIdx : reqs[r].hdr = StringArray /\ reqs[r].status = 400
  /\ \E c \in ConnIdx : Live(c) /\ Registered(c)

\* C18: a connection has a public key exactly when it was created without a
\* raw socket, that is over HTTP: a socket connection's key is null, an HTTP
\* connection's key is a non-empty string of the public-key header; this holds
\* of every connection constructed, hence of every registered one.
C18_PublicKeyIffHTTP ==
  /\ \A c \in ConnIdx :
       /\ conns[c].publicKey # Null <=> conns[c].raw = Null
       /\ conns[c].raw = "socket" => conns[c].publicKey = Null
       /\ conns[c].raw = Null
            => SentString(conns[c].publicKey) /\ conns[c].publicKey \in PublicKeyHeaders
  /\ \A k \in DOMAIN connections :
       conns[connections[k]].raw \in {Null, "socket"}

\* The registry holds a socket connection without a key and an HTTP
\* connection with the key of its request.
C18_Witness ==
  \E c, d \in ConnIdx :
    /\ Live(c) /\ Registered(c) /\ conns[c].raw = "socket" /\ conns[c].publicKey = Null
    /\ Live(d) /\ Registered(d) /\ conns[d].raw = Null /\ conns[d].publicKey = "pk_abc"
====
